---- MODULE Spec2Model ----
(***************************************************************************)
(* Business Framework Analysis Platform (app.py): one render pass of       *)
(* main() per user interaction.  The model follows main() and              *)
(* show_home_page() step by step: data load, page routing under the        *)
(* router's try/except, and the Home page sections (metrics, category      *)
(* chart, quick search, featured frameworks, getting-started guide).       *)
(* Text is kept as text: the search is computed the way                    *)
(* Series.str.contains(pat, case=False) computes it, by compiling the      *)
(* query as a regular expression and searching each field.                 *)
(***************************************************************************)
EXTENDS Integers, Sequences, FiniteSets, TLC

(***************************************************************************)
(* Bounds of the model.                                                    *)
(***************************************************************************)
\* longest dataset the provider returns
MaxLen == 3
\* longest query typed into the search box
MaxQueryLen == 2

(***************************************************************************)
(* Text helpers.                                                           *)
(***************************************************************************)
Ch(s, i) == SubSeq(s, i, i)

UpperAlpha == "ABCDEFGHIJKLMNOPQRSTUVWXYZ"
LowerAlpha == "abcdefghijklmnopqrstuvwxyz"

\* ASCII case folding, as re.IGNORECASE folds the characters used here
Lower(c) ==
  IF \E i \in 1..Len(UpperAlpha) : Ch(UpperAlpha, i) = c
  THEN Ch(LowerAlpha, CHOOSE i \in 1..Len(UpperAlpha) : Ch(UpperAlpha, i) = c)
  ELSE c

\* t occurs in s as literal text
Contains(s, t) ==
  \E i \in 1..(Len(s) - Len(t) + 1) : SubSeq(s, i, i + Len(t) - 1) = t

(***************************************************************************)
(* re.compile(pat, re.IGNORECASE) for patterns over QueryChars: letters    *)
(* and "]" outside a set are literals, "." is any character, "[" opens a   *)
(* character set that runs to the first "]" after its first item.          *)
(***************************************************************************)
RECURSIVE SetEnd(_, _, _)
\* position of the "]" closing the set whose first item is at `first`,
\* 0 when the pattern ends before it
SetEnd(pat, i, first) ==
  IF i > Len(pat) THEN 0
  ELSE IF Ch(pat, i) = "]" /\ i > first THEN i
  ELSE SetEnd(pat, i + 1, first)

RECURSIVE re_parse(_, _)
re_parse(pat, i) ==
  IF i > Len(pat) THEN [ok |-> TRUE, msg |-> "", atoms |-> <<>>]
  ELSE
    LET c == Ch(pat, i) IN
    IF c = "["
    THEN LET e == SetEnd(pat, i + 1, i + 1) IN
         IF e = 0
         THEN [ok |-> FALSE,
               msg |-> "unterminated character set at position " \o ToString(i - 1),
               atoms |-> <<>>]
         ELSE LET rest == re_parse(pat, e + 1) IN
              IF ~rest.ok THEN rest
              ELSE [ok |-> TRUE, msg |-> "",
                    atoms |-> <<[any |-> FALSE,
                                 chars |-> {Ch(pat, k) : k \in (i + 1)..(e - 1)}]>>
                              \o rest.atoms]
    ELSE LET rest == re_parse(pat, i + 1) IN
         IF ~rest.ok THEN rest
         ELSE [ok |-> TRUE, msg |-> "",
               atoms |-> <<[any |-> (c = "."), chars |-> {c}]>> \o rest.atoms]

re_compile(pat) == re_parse(pat, 1)

\* one compiled atom against one character, ignoring case
atom_matches(atom, c) ==
  atom.any \/ \E d \in atom.chars : Lower(d) = Lower(c)

\* regex.search(x) is not None
re_search(atoms, x) ==
  \E start \in 1..(Len(x) + 1) :
    \A k \in 1..Len(atoms) :
      /\ start + k - 1 <= Len(x)
      /\ atom_matches(atoms[k], Ch(x, start + k - 1))

(***************************************************************************)
(* The data the provider serves.  A record has the four columns the Home   *)
(* page reads; names are unique within a dataset.                          *)
(***************************************************************************)
Strategic == "Strategic Planning Frameworks"

Catalog ==
  { [name |-> "SWOT Analysis", category |-> Strategic,
     core_function |-> "Identify strengths", typical_uses |-> "Strategy sessions"],
    [name |-> "Ansoff Matrix", category |-> Strategic,
     core_function |-> "Map growth options", typical_uses |-> "Market entry"],
    [name |-> "Lean Management", category |-> "Operations",
     core_function |-> "Cut idle time", typical_uses |-> "Production [plant] line."] }

RECURSIVE SeqsUpTo(_)
\* the sequences of at most n catalog records with pairwise distinct names
SeqsUpTo(n) ==
  IF n = 0 THEN {<<>>}
  ELSE LET S == SeqsUpTo(n - 1) IN
       S \cup {Append(d, r) : d \in S, r \in Catalog}

DistinctNames(d) ==
  \A i, j \in 1..Len(d) : i # j => d[i].name # d[j].name

Datasets == {d \in SeqsUpTo(MaxLen) : DistinctNames(d)}

\* the characters a user types into the search box
QueryChars == {"S", ".", "[", "]"}

RECURSIVE QueriesUpTo(_)
QueriesUpTo(n) ==
  IF n = 0 THEN {""}
  ELSE LET S == QueriesUpTo(n - 1) IN S \cup {q \o c : q \in S, c \in QueryChars}

Queries == QueriesUpTo(MaxQueryLen)

\* what the external collaborators can raise.  The same text can come from
\* any place: where something was raised and whether it is an Exception is
\* kept in the state, not read off the text.
\* errors (Exception subclasses) of a page: its import or its show_page()
PageErrors == {"division by zero", "No module named 'networkx'",
               "frameworks file not found"}
\* what a page raises that is not an Exception (SystemExit, KeyboardInterrupt)
PageExits == {"bye"}
\* errors of the data provider
ProviderErrors == {"frameworks file not found"}

(***************************************************************************)
(* Navigation.                                                             *)
(***************************************************************************)
Home == "Home"

Pages == <<"Home", "Framework Explorer", "Comparative Analysis",
           "Industry Recommendations", "Framework Relationships">>

PageSet == {Pages[i] : i \in 1..Len(Pages)}

\* the module a page's branch imports
module_name(p) ==
  CASE p = "Framework Explorer" -> "pages.framework_explorer"
    [] p = "Comparative Analysis" -> "pages.comparative_analysis"
    [] p = "Industry Recommendations" -> "pages.industry_recommendations"
    [] p = "Framework Relationships" -> "pages.framework_relationships"

\* the AttributeError of fe.show_page when the module defines no show_page
attribute_error(p) ==
  "module '" \o module_name(p) \o "' has no attribute 'show_page'"

featured_frameworks == <<"SWOT Analysis", "Business Model Canvas",
                         "Porter's Five Forces", "Design Thinking",
                         "Lean Management">>

(***************************************************************************)
(* Data-frame operations used by show_home_page.                           *)
(***************************************************************************)
\* df[mask]: the rows whose mask is set, in the frame's order
RECURSIVE boolean_index(_, _)
boolean_index(df, mask) ==
  IF df = <<>> THEN <<>>
  ELSE LET front == boolean_index(SubSeq(df, 1, Len(df) - 1),
                                  SubSeq(mask, 1, Len(df) - 1)) IN
       IF mask[Len(df)] THEN Append(front, df[Len(df)]) ELSE front

\* len(frameworks_df[frameworks_df['category'] == label])
count_category(df, label) ==
  Len(boolean_index(df, [i \in 1..Len(df) |-> df[i].category = label]))

\* the distinct categories of df, in the order first encountered
RECURSIVE unique_categories(_)
unique_categories(df) ==
  IF df = <<>> THEN <<>>
  ELSE LET front == unique_categories(SubSeq(df, 1, Len(df) - 1))
           c == df[Len(df)].category IN
       IF \E i \in 1..Len(front) : front[i] = c THEN front ELSE Append(front, c)

\* the counts in first-encountered order, before sorting
count_first_seen(df) ==
  LET keys == unique_categories(df) IN
  [i \in 1..Len(keys) |->
     [category |-> keys[i], count |-> count_category(df, keys[i])]]

\* the orders Series.sort_values(ascending=False) can give: its default sort
\* is not stable, so entries of equal count come in any order
sort_values_desc(s) ==
  LET n == Len(s)
      Orders == {f \in [1..n -> 1..n] :
                   /\ \A i, j \in 1..n : (i # j) => (f[i] # f[j])
                   /\ \A i, j \in 1..n : (i < j) => (s[f[i]].count >= s[f[j]].count)}
  IN {[i \in 1..n |-> s[f[i]]] : f \in Orders}

\* frameworks_df['category'].value_counts(): the histograms it can return
value_counts(df) == sort_values_desc(count_first_seen(df))

\* Series.str.contains(pat, case=False) on one value, pat already compiled
str_contains(x, atoms) == re_search(atoms, x)

\* the OR of the three column masks
search_mask(df, atoms) ==
  [i \in 1..Len(df) |->
     \/ str_contains(df[i].name, atoms)
     \/ str_contains(df[i].core_function, atoms)
     \/ str_contains(df[i].typical_uses, atoms)]

\* the quick search: raises when the query does not compile, else the
\* filtered frame
search(df, search_term) ==
  LET r == re_compile(search_term) IN
  IF ~r.ok THEN [raised |-> TRUE, error |-> r.msg, rows |-> <<>>]
  ELSE [raised |-> FALSE, error |-> "",
        rows |-> boolean_index(df, search_mask(df, r.atoms))]

\* Series.isin(values) on one value
isin(x, values) == \E i \in 1..Len(values) : values[i] = x

\* the selection taken by walking the name list instead of the frame
RECURSIVE select_featured_in_list_order(_, _)
select_featured_in_list_order(df, names) ==
  IF names = <<>> THEN <<>>
  ELSE boolean_index(df, [i \in 1..Len(df) |-> df[i].name = names[1]])
         \o select_featured_in_list_order(df, SubSeq(names, 2, Len(names)))

\* frameworks_df[frameworks_df['name'].isin(names)]
select_featured(df, names) ==
  boolean_index(df, [i \in 1..Len(df) |-> isin(df[i].name, names)])

(***************************************************************************)
(* What a render puts on the screen.                                       *)
(***************************************************************************)
Elem(kind, text, data) == [kind |-> kind, text |-> text, data |-> data]

\* a message that leaves the page label out
error_message_without_page(p, e) == "Error loading page: " \o e

error_message(p, e) == "Error loading page '" \o p \o "': " \o e

Kinds(o) == [i \in 1..Len(o) |-> o[i].kind]

HasKind(o, k) == \E i \in 1..Len(o) : o[i].kind = k

(***************************************************************************)
(* State.                                                                  *)
(***************************************************************************)
VARIABLES
  dataset,        \* the table behind the dataset provider
  page,           \* value of the sidebar radio
  query,          \* value of the search box
  pc,             \* where the script is: "idle" between renders
  frameworks_df,  \* main(): frameworks_df of this render
  categories,     \* main(): categories of this render
  out,            \* the elements emitted by this render, in order
  invoked,        \* page -> number of times its handler was called this render
  loaded,         \* pages whose module was imported this render
  searches,       \* number of searches run this render
  input_shown,    \* the search box was drawn this render
  exc,            \* text of what was raised, "" when there is none
  exc_class,      \* "Exception" or "BaseException" (not an Exception), "" when none
  exc_site,       \* where it was raised: "load", "import", "lookup", "handler",
                  \* "home"; "" when none
  trigger,        \* what started this render: "start", "select", "type"
  status,         \* "running", or how the render ended: "ok", "caught", "propagated"
  failed_before   \* some earlier render ended with a caught page error

vars == <<dataset, page, query, pc, frameworks_df, categories, out, invoked,
          loaded, searches, input_shown, exc, exc_class, exc_site, trigger,
          status, failed_before>>

NoneInvoked == [p \in PageSet |-> 0]

Init ==
  /\ dataset \in Datasets
  /\ page = Pages[1]
  /\ query = ""
  /\ pc = "main"
  /\ frameworks_df = <<>>
  /\ categories = {}
  /\ out = <<>>
  /\ invoked = NoneInvoked
  /\ loaded = {}
  /\ searches = 0
  /\ input_shown = FALSE
  /\ exc = ""
  /\ exc_class = ""
  /\ exc_site = ""
  /\ trigger = "start"
  /\ status = "running"
  /\ failed_before = FALSE

(***************************************************************************)
(* User interactions: each one reruns the script from the top.             *)
(***************************************************************************)
Rerun ==
  /\ pc' = "main"
  /\ frameworks_df' = <<>>
  /\ categories' = {}
  /\ out' = <<>>
  /\ invoked' = NoneInvoked
  /\ loaded' = {}
  /\ searches' = 0
  /\ exc' = ""
  /\ exc_class' = ""
  /\ exc_site' = ""
  /\ input_shown' = FALSE
  /\ status' = "running"
  /\ failed_before' = (failed_before \/ status = "caught")
  /\ UNCHANGED dataset

\* a search box that keeps its text across pages (a keyed widget)
SelectPageKeepsQuery(p) ==
  /\ pc = "idle"
  /\ p # page
  /\ page' = p
  /\ query' = query
  /\ trigger' = "select"
  /\ Rerun

\* the user picks another label in the sidebar radio; the search box is part
\* of the Home page only and starts empty when Home is entered
SelectPage(p) ==
  /\ pc = "idle"
  /\ p # page
  /\ page' = p
  /\ query' = ""
  /\ trigger' = "select"
  /\ Rerun

\* the user submits a text in the search box, which is on screen
TypeQuery(q) ==
  /\ pc = "idle"
  /\ input_shown
  /\ q # query
  /\ query' = q
  /\ page' = page
  /\ trigger' = "type"
  /\ Rerun

(***************************************************************************)
(* main()                                                                  *)
(***************************************************************************)
\* title, subtitle and the sidebar navigation
Header ==
  /\ pc = "main"
  /\ out' = <<Elem("title", "Business Framework Analysis Platform", 0),
              Elem("markdown", "Comprehensive analysis", 0),
              Elem("radio", "Select a page:", page)>>
  /\ pc' = "load"
  /\ UNCHANGED <<dataset, page, query, frameworks_df, categories, invoked,
                 loaded, searches, input_shown, exc, exc_class, exc_site, status, failed_before, trigger>>

\* get_all_frameworks(): the provider's table
get_all_frameworks == dataset

\* get_framework_categories(): the distinct categories of the table
get_framework_categories == {dataset[i].category : i \in 1..Len(dataset)}

\* something is raised
Raise(e, class, site) ==
  /\ exc' = e
  /\ exc_class' = class
  /\ exc_site' = site

\* what was raised leaves main(): the render is over, nothing below runs
Propagate(e, class, site) ==
  /\ Raise(e, class, site)
  /\ status' = "propagated"
  /\ pc' = "idle"

\* frameworks_df = get_all_frameworks()
LoadFrameworks ==
  /\ pc = "load"
  /\ frameworks_df' = get_all_frameworks
  /\ pc' = "load_categories"
  /\ UNCHANGED <<dataset, page, query, categories, out, invoked, loaded,
                 searches, input_shown, exc, exc_class, exc_site, status, failed_before, trigger>>

\* get_all_frameworks() raises, outside the try block
LoadFrameworksRaises(e) ==
  /\ pc = "load"
  /\ Propagate(e, "Exception", "load")
  /\ UNCHANGED <<dataset, page, query, frameworks_df, categories, out,
                 invoked, loaded, searches, input_shown, failed_before, trigger>>

\* categories = get_framework_categories()
LoadCategories ==
  /\ pc = "load_categories"
  /\ categories' = get_framework_categories
  /\ pc' = "route"
  /\ UNCHANGED <<dataset, page, query, frameworks_df, out, invoked, loaded,
                 searches, input_shown, exc, exc_class, exc_site, status, failed_before, trigger>>

\* the second load moved inside the try block: its error reaches the handler
LoadCategoriesRaisesInsideTry(e) ==
  /\ pc = "load_categories"
  /\ Raise(e, "Exception", "load")
  /\ pc' = "except"
  /\ UNCHANGED <<dataset, page, query, frameworks_df, categories, out,
                 invoked, loaded, searches, input_shown, status, failed_before, trigger>>

\* get_framework_categories() raises, outside the try block; frameworks_df
\* already holds the table
LoadCategoriesRaises(e) ==
  /\ pc = "load_categories"
  /\ Propagate(e, "Exception", "load")
  /\ UNCHANGED <<dataset, page, query, frameworks_df, categories, out,
                 invoked, loaded, searches, input_shown, failed_before, trigger>>

\* the script ran to its end
Finish(st) ==
  /\ status' = st
  /\ pc' = "idle"

\* if page == "Home": show_home_page(frameworks_df, categories)
RouteHome ==
  /\ pc = "route"
  /\ page = Home
  /\ invoked' = [invoked EXCEPT ![Home] = @ + 1]
  /\ pc' = "home_metrics"
  /\ UNCHANGED <<dataset, page, query, frameworks_df, categories, out, loaded,
                 searches, input_shown, exc, exc_class, exc_site, status, failed_before, trigger>>

\* the branch of one of the four other pages: the loading note and the
\* import of the page's module
ImportPage(p) ==
  /\ pc = "route"
  /\ page = p
  /\ p # Home
  /\ out' = Append(out, Elem("write", "Loading " \o p \o "...", 0))
  /\ loaded' = loaded \cup {p}
  /\ pc' = "show_page"
  /\ UNCHANGED <<dataset, page, query, frameworks_df, categories, invoked,
                 searches, input_shown, exc, exc_class, exc_site, status, failed_before, trigger>>

\* the import raises: show_page() is never reached
ImportPageRaises(p, e) ==
  /\ pc = "route"
  /\ page = p
  /\ p # Home
  /\ out' = Append(out, Elem("write", "Loading " \o p \o "...", 0))
  /\ Raise(e, "Exception", "import")
  /\ pc' = "except"
  /\ UNCHANGED <<dataset, page, query, frameworks_df, categories, invoked,
                 loaded, searches, input_shown, status, failed_before, trigger>>

\* the import raises something that is not an Exception: the except clause
\* does not match, it leaves main() and show_page() is never reached
ImportPageExits(p, e) ==
  /\ pc = "route"
  /\ page = p
  /\ p # Home
  /\ out' = Append(out, Elem("write", "Loading " \o p \o "...", 0))
  /\ Propagate(e, "BaseException", "import")
  /\ UNCHANGED <<dataset, page, query, frameworks_df, categories, invoked,
                 loaded, searches, input_shown, failed_before, trigger>>

\* show_page() of the imported module returns; main() ends
ShowPage(p) ==
  /\ pc = "show_page"
  /\ page = p
  /\ invoked' = [invoked EXCEPT ![p] = @ + 1]
  /\ Finish("ok")
  /\ UNCHANGED <<dataset, page, query, frameworks_df, categories, out, loaded,
                 searches, input_shown, exc, exc_class, exc_site, failed_before, trigger>>

\* the module was imported but has no show_page: evaluating fe.show_page
\* raises AttributeError before any handler is entered
ShowPageLookupRaises(p) ==
  /\ pc = "show_page"
  /\ page = p
  /\ Raise(attribute_error(p), "Exception", "lookup")
  /\ pc' = "except"
  /\ UNCHANGED <<dataset, page, query, frameworks_df, categories, out, invoked,
                 loaded, searches, input_shown, status, failed_before, trigger>>

\* show_page() is entered and raises an Exception
ShowPageRaises(p, e) ==
  /\ pc = "show_page"
  /\ page = p
  /\ invoked' = [invoked EXCEPT ![p] = @ + 1]
  /\ Raise(e, "Exception", "handler")
  /\ pc' = "except"
  /\ UNCHANGED <<dataset, page, query, frameworks_df, categories, out, loaded,
                 searches, input_shown, status, failed_before, trigger>>

\* show_page() raises something that is not an Exception: the except clause
\* does not match and it leaves main()
ShowPageExits(p, e) ==
  /\ pc = "show_page"
  /\ page = p
  /\ invoked' = [invoked EXCEPT ![p] = @ + 1]
  /\ Propagate(e, "BaseException", "handler")
  /\ UNCHANGED <<dataset, page, query, frameworks_df, categories, out, loaded,
                 searches, input_shown, failed_before, trigger>>

\* a handler that reports the error and routes again
ExceptRetries ==
  /\ pc = "except"
  /\ out' = out \o <<Elem("error", error_message(page, exc), 0),
                     Elem("write", "Please try refreshing the page", 0)>>
  /\ pc' = "route"
  /\ UNCHANGED <<dataset, page, query, frameworks_df, categories, invoked,
                 loaded, searches, input_shown, exc, exc_class, exc_site, status, failed_before, trigger>>

\* except Exception as e: st.error(...), st.write(...)
Except ==
  /\ pc = "except"
  /\ out' = out \o <<Elem("error", error_message(page, exc), 0),
                     Elem("write", "Please try refreshing the page", 0)>>
  /\ Finish("caught")
  /\ UNCHANGED <<dataset, page, query, frameworks_df, categories, invoked,
                 loaded, searches, input_shown, exc, exc_class, exc_site, failed_before, trigger>>

(***************************************************************************)
(* show_home_page(frameworks_df, categories)                               *)
(***************************************************************************)
\* the four metrics and the rule under them
HomeMetrics ==
  /\ pc = "home_metrics"
  /\ out' = out \o
       <<Elem("metric", "Total Frameworks", Len(frameworks_df)),
         Elem("metric", "Categories", Cardinality(categories)),
         Elem("metric", "Strategic Frameworks",
              count_category(frameworks_df, Strategic)),
         Elem("metric", "Industries Covered", "10+")>>
  /\ pc' = "home_chart"
  /\ UNCHANGED <<dataset, page, query, frameworks_df, categories, invoked,
                 loaded, searches, input_shown, exc, exc_class, exc_site, status, failed_before, trigger>>

\* the bar chart of value_counts()
HomeChart ==
  /\ pc = "home_chart"
  /\ \E category_counts \in value_counts(frameworks_df) :
       out' = Append(out, Elem("chart", "Number of Frameworks by Category",
                               category_counts))
  /\ pc' = "home_search"
  /\ UNCHANGED <<dataset, page, query, frameworks_df, categories, invoked,
                 loaded, searches, input_shown, exc, exc_class, exc_site, status, failed_before, trigger>>

\* what the search section shows for a search_term
search_section(df, search_term) ==
  IF search_term = "" THEN [raised |-> FALSE, error |-> "", shown |-> <<>>, runs |-> 0]
  ELSE LET filtered_frameworks == search(df, search_term) IN
       IF filtered_frameworks.raised
       THEN [raised |-> TRUE, error |-> filtered_frameworks.error,
             shown |-> <<>>, runs |-> 1]
       ELSE IF filtered_frameworks.rows # <<>>
       THEN [raised |-> FALSE, error |-> "", runs |-> 1,
             shown |-> <<Elem("dataframe", search_term, filtered_frameworks.rows)>>]
       ELSE [raised |-> FALSE, error |-> "", runs |-> 1,
             shown |-> <<Elem("warning",
                              "No frameworks found matching your search.", 0)>>]

\* the search section with its error escaping the router's try block
HomeSearchOutsideTry ==
  /\ pc = "home_search"
  /\ LET search_term == query
         r == search_section(frameworks_df, search_term) IN
     /\ out' = Append(out, Elem("text_input", "Search for a framework:",
                                search_term)) \o r.shown
     /\ searches' = searches + r.runs
     /\ IF r.raised
        THEN Propagate(r.error, "Exception", "home")
        ELSE /\ Raise("", "", "")
             /\ pc' = "home_featured"
             /\ status' = status
  /\ input_shown' = TRUE
  /\ UNCHANGED <<dataset, page, query, frameworks_df, categories, invoked,
                 loaded, failed_before, trigger>>

\* the search box and, for a non-empty text, the search and its outcome
HomeSearch ==
  /\ pc = "home_search"
  /\ LET search_term == query
         r == search_section(frameworks_df, search_term) IN
     /\ out' = Append(out, Elem("text_input", "Search for a framework:",
                                search_term)) \o r.shown
     /\ searches' = searches + r.runs
     /\ IF r.raised THEN Raise(r.error, "Exception", "home")
                    ELSE Raise("", "", "")
     /\ pc' = IF r.raised THEN "except" ELSE "home_featured"
  /\ input_shown' = TRUE
  /\ UNCHANGED <<dataset, page, query, frameworks_df, categories, invoked,
                 loaded, status, failed_before, trigger>>

\* one expander per featured row
featured_section(df) ==
  LET featured_df == select_featured(df, featured_frameworks) IN
  [i \in 1..Len(featured_df) |-> Elem("expander", featured_df[i].name, featured_df[i])]

HomeFeatured ==
  /\ pc = "home_featured"
  /\ out' = Append(out, Elem("subheader", "Featured Frameworks", 0))
              \o featured_section(frameworks_df)
  /\ pc' = "home_guide"
  /\ UNCHANGED <<dataset, page, query, frameworks_df, categories, invoked,
                 loaded, searches, input_shown, exc, exc_class, exc_site, status, failed_before, trigger>>

\* the getting-started guide; show_home_page returns and main() ends
HomeGuide ==
  /\ pc = "home_guide"
  /\ out' = Append(out, Elem("guide", "Getting Started", 0))
  /\ Finish("ok")
  /\ UNCHANGED <<dataset, page, query, frameworks_df, categories, invoked,
                 loaded, searches, input_shown, exc, exc_class, exc_site, failed_before, trigger>>

Next ==
  \/ \E p \in PageSet : SelectPage(p)
  \/ \E q \in Queries : TypeQuery(q)
  \/ Header
  \/ LoadFrameworks
  \/ \E e \in ProviderErrors : LoadFrameworksRaises(e)
  \/ LoadCategories
  \/ \E e \in ProviderErrors : LoadCategoriesRaises(e)
  \/ RouteHome
  \/ \E p \in PageSet : ImportPage(p)
  \/ \E p \in PageSet, e \in PageErrors : ImportPageRaises(p, e)
  \/ \E p \in PageSet, e \in PageExits : ImportPageExits(p, e)
  \/ \E p \in PageSet : ShowPage(p)
  \/ \E p \in PageSet : ShowPageLookupRaises(p)
  \/ \E p \in PageSet, e \in PageErrors : ShowPageRaises(p, e)
  \/ \E p \in PageSet, e \in PageExits : ShowPageExits(p, e)
  \/ Except
  \/ HomeMetrics
  \/ HomeChart
  \/ HomeSearch
  \/ HomeFeatured
  \/ HomeGuide

Spec == Init /\ [][Next]_vars

(***************************************************************************)
(* Properties.                                                             *)
(***************************************************************************)
OfKind(k) == SelectSeq(out, LAMBDA e : e.kind = k)

Table == HasKind(out, "dataframe")
Notice == HasKind(out, "warning")

\* the router's error message is on screen and names page p and error e
ErrorShown(p, e) ==
  \E i \in 1..Len(out) :
    /\ out[i].kind = "error"
    /\ Contains(out[i].text, p)
    /\ Contains(out[i].text, e)

RECURSIVE LowerStr(_)
LowerStr(s) ==
  IF s = "" THEN "" ELSE LowerStr(SubSeq(s, 1, Len(s) - 1)) \o Lower(Ch(s, Len(s)))

\* q, ignoring case, is literally part of one of the three searched fields
LiteralHit(r, q) ==
  \/ Contains(LowerStr(r.name), LowerStr(q))
  \/ Contains(LowerStr(r.core_function), LowerStr(q))
  \/ Contains(LowerStr(r.typical_uses), LowerStr(q))

\* position of record r in frame df (names are unique)
IndexIn(df, r) == CHOOSE i \in 1..Len(df) : df[i] = r

\* res is made of exactly the rows of df that satisfy Keep, in df's order
IsFilterOf(res, df, Keep(_)) ==
  /\ \A i \in 1..Len(res) :
       \E j \in 1..Len(df) : df[j] = res[i] /\ Keep(df[j])
  /\ \A j \in 1..Len(df) :
       Keep(df[j]) => \E i \in 1..Len(res) : res[i] = df[j]
  /\ \A i1, i2 \in 1..Len(res) :
       i1 < i2 => IndexIn(df, res[i1]) < IndexIn(df, res[i2])

\* the search section of this render has run
SearchSectionRan == input_shown

\* the rows the search section put on screen
ShownRows == IF Table THEN OfKind("dataframe")[1].data ELSE <<>>

\* C1: whatever label is selected, every error (an Exception) raised by the
\* selected page's handler is caught by the router, which shows an error
\* message holding the label and the error text, and the render ends
\* normally: no error raised inside the try block ever leaves main().  The
\* same holds of the errors raised on the way into the handler (the import
\* of its module, the lookup of show_page).
C1_RouterCatchesHandlerErrors ==
  /\ (pc = "idle" /\ exc_class = "Exception" /\ exc_site # "load") =>
        /\ status = "caught"
        /\ ErrorShown(page, exc)
  /\ (exc_class = "Exception" /\ exc_site \in {"handler", "home"}) =>
        /\ invoked[page] = 1
        /\ pc \in {"except", "idle"}
        /\ status \in {"running", "caught"}
  /\ (pc = "except") =>
        (status = "running" /\ exc # "" /\ exc_class = "Exception" /\ exc_site # "load")
  /\ (status = "caught") => (pc = "idle" /\ exc_class = "Exception")
  /\ (status = "propagated") => (exc_site = "load" \/ exc_class = "BaseException")

\* the handler of a page other than Home was entered and raised
C1_Witness ==
  /\ pc = "idle"
  /\ status = "caught"
  /\ exc_class = "Exception"
  /\ exc_site = "handler"
  /\ page = "Framework Relationships"
  /\ exc = "division by zero"
  /\ invoked["Framework Relationships"] = 1
  /\ ErrorShown("Framework Relationships", "division by zero")

\* C2: for a non-empty query the rows found by the Home search are exactly
\* the records of the dataset in which the query, taken as literal text and
\* ignoring case, is part of name, core_function or typical_uses, in the
\* dataset's order.
C2_SearchIsLiteralFilter ==
  (SearchSectionRan /\ query # "") =>
     IsFilterOf(ShownRows, frameworks_df, LAMBDA r : LiteralHit(r, query))

\* C3: no non-empty query makes the search step raise: the Home render
\* never ends in the error outcome because of the query text.
C3_SearchNeverRaises ==
  (page = Home /\ query # "") => (pc # "except" /\ status # "caught")

\* C4: a render in which a page failed does not affect later renders: the
\* render started by selecting Home, after any renders whose error the
\* router caught and with both data loads succeeding, never enters the
\* error outcome and ends successfully with the whole Home page and no
\* error message.
C4_HomeSelectedAfterFailureRenders ==
  /\ (page = Home /\ trigger = "select" /\ failed_before) =>
        (pc # "except" /\ status # "caught" /\ ~HasKind(out, "error"))
  /\ (page = Home /\ trigger = "select" /\ failed_before /\ pc = "idle"
        /\ exc_site # "load") =>
        /\ status = "ok"
        /\ exc = ""
        /\ invoked[Home] = 1
        /\ HasKind(out, "guide")

\* Home selected and rendered in full after a render that failed
C4_Witness ==
  /\ page = Home
  /\ trigger = "select"
  /\ failed_before
  /\ pc = "idle"
  /\ status = "ok"
  /\ Len(frameworks_df) = 2
  /\ HasKind(out, "guide")
  /\ ~HasKind(out, "error")

\* C5: an error of either data load is not caught by the router: it leaves
\* main(), no page handler is invoked or loaded, no router error message is
\* shown, nothing is rendered after the header and no data is substituted
\* (frameworks_df is unset or the provider's own table, categories is unset).
C5_LoadErrorPropagates ==
  /\ (pc = "idle" /\ categories = {} /\ dataset # <<>>) => (status = "propagated")
  /\ (exc_site = "load") =>
        /\ exc \in ProviderErrors
        /\ exc_class = "Exception"
        /\ status = "propagated"
        /\ pc = "idle"
        /\ \A p \in PageSet : invoked[p] = 0
        /\ loaded = {}
        /\ ~HasKind(out, "error")
        /\ Kinds(out) = <<"title", "markdown", "radio">>
        /\ frameworks_df \in {<<>>, dataset}
        /\ categories = {}

\* the second load raised after the first had returned the table
C5_Witness ==
  /\ status = "propagated"
  /\ page = Home
  /\ exc = "frameworks file not found"
  /\ exc_site = "load"
  /\ frameworks_df = dataset
  /\ Len(dataset) = 2

\* C6: the search runs only for a non-empty query, and the search section
\* has exactly three outcomes: an empty query shows neither table nor
\* notice, a non-empty query shows either the table (some match) or the
\* no-results notice (no match), never both and never neither, and the
\* notice is not an error.
C6_ThreeSearchOutcomes ==
  SearchSectionRan =>
    /\ (searches > 0) => (query # "")
    /\ (query = "") => (~Table /\ ~Notice /\ searches = 0)
    /\ (query # "") => (Table # Notice)
    /\ Table => ShownRows # <<>>
    /\ Notice => (pc # "except" /\ status # "caught")

\* name lists the featured selection is also tried on
NameLists ==
  { <<>>,
    featured_frameworks,
    <<"Lean Management", "Design Thinking", "SWOT Analysis">>,
    <<"Ansoff Matrix", "Business Model Canvas">>,
    <<"Porter's Five Forces">> }

\* the featured section of this render has run
FeaturedSectionRan == HasKind(out, "subheader")

\* the records shown in the featured section
ShownFeatured ==
  LET ex == OfKind("expander") IN [i \in 1..Len(ex) |-> ex[i].data]

\* C7: the featured section shows exactly the records of the dataset whose
\* name is in the featured list, in the dataset's order; names that are not
\* in the dataset are ignored and the section never raises.  The same holds
\* of the selection for any other name list.
C7_FeaturedIsFilterInDatasetOrder ==
  /\ FeaturedSectionRan =>
        /\ IsFilterOf(ShownFeatured, frameworks_df,
                      LAMBDA r : \E k \in 1..Len(featured_frameworks) :
                                    featured_frameworks[k] = r.name)
        /\ pc \in {"home_guide", "idle"}
        /\ status \in {"running", "ok"}
  /\ \A L \in NameLists :
        IsFilterOf(select_featured(frameworks_df, L), frameworks_df,
                   LAMBDA r : \E k \in 1..Len(L) : L[k] = r.name)

\* dataset order (Lean before SWOT) against list order (SWOT before Lean)
C7_Witness ==
  /\ pc = "idle"
  /\ status = "ok"
  /\ Len(frameworks_df) = 3
  /\ Len(ShownFeatured) = 2
  /\ ShownFeatured[1].name = "Lean Management"
  /\ ShownFeatured[2].name = "SWOT Analysis"

\* C8 as stated: in every render that reaches the router exactly one handler
\* is invoked, the selected page's, exactly once; no other page's module is
\* loaded; there is no second invocation.
C8_HandlerInvokedExactlyOnce ==
  /\ \A p \in PageSet : invoked[p] <= 1
  /\ \A p \in PageSet : (invoked[p] > 0) => (p = page)
  /\ loaded \subseteq ({page} \ {Home})
  /\ (pc = "idle" /\ exc_site # "load") => (invoked[page] = 1)

\* C8 amended: within one render only the handler of the selected page is
\* invoked and only its module is loaded; the handler is invoked at most
\* once.  When the render is over it was invoked exactly once if the render
\* ended successfully or the handler itself (or the Home page) raised, and
\* not at all if a data load raised, the import of the page's module raised
\* (module not loaded) or the module has no show_page (module loaded),
\* whether the router caught what was raised or it left main(); a handler
\* that returned or raised is not invoked again.
C8_OnlySelectedHandlerAtMostOnce ==
  /\ \A p \in PageSet : invoked[p] <= 1
  /\ \A p \in PageSet : (invoked[p] > 0) => (p = page)
  /\ loaded \subseteq ({page} \ {Home})
  /\ (pc = "idle") =>
        ((invoked[page] = 1) <=> (exc_site \in {"", "handler", "home"}))
  /\ (status = "ok") => (invoked[page] = 1 /\ exc_site = "")
  /\ (exc_site \in {"handler", "home"}) => (invoked[page] = 1)
  /\ (page # Home /\ invoked[page] = 1) => (loaded = {page})
  /\ (exc_site \in {"load", "import"}) =>
        (loaded = {} /\ \A p \in PageSet : invoked[p] = 0)
  /\ (exc_site = "lookup") =>
        (loaded = {page} /\ \A p \in PageSet : invoked[p] = 0)

\* the selected page's module was imported but has no show_page: the error
\* is caught and no handler was invoked
C8_Witness ==
  /\ pc = "idle"
  /\ status = "caught"
  /\ page = "Comparative Analysis"
  /\ exc_site = "lookup"
  /\ loaded = {"Comparative Analysis"}
  /\ \A p \in PageSet : invoked[p] = 0
  /\ ErrorShown("Comparative Analysis",
                "module 'pages.comparative_analysis' has no attribute 'show_page'")

\* the histogram on screen
ShownHistogram == OfKind("chart")[1].data

\* first position of category c in frame df
FirstSeen(df, c) == CHOOSE i \in 1..Len(df) :
                      /\ df[i].category = c
                      /\ \A j \in 1..(i - 1) : df[j].category # c

C10_HomeFailureCaughtMidPage ==
  /\ (page = Home /\ pc = "idle" /\ exc # "" /\ exc_site # "load") =>
        /\ status = "caught"
        /\ ErrorShown(Home, exc)
        /\ Kinds(out) = <<"title", "markdown", "radio", "metric", "metric",
                          "metric", "metric", "chart", "text_input", "error",
                          "write">>
  /\ (page = Home /\ pc = "except") =>
        /\ Kinds(out) = <<"title", "markdown", "radio", "metric", "metric",
                          "metric", "metric", "chart", "text_input">>
        /\ exc # ""

C10_Witness ==
  /\ page = Home
  /\ pc = "idle"
  /\ status = "caught"
  /\ query = "["
  /\ exc = "unterminated character set at position 0"
  /\ HasKind(out, "chart")
  /\ ~HasKind(out, "guide")
====
